---------------------------- MODULE Spec2Model ----------------------------
(***************************************************************************)
(* A model of pint's definition parser (pint/definitions.py), of the       *)
(* application registry handle and the unpickling hook (pint/__init__.py), *)
(* of the function wrappers (pint/registry_helpers.py) and of the messages *)
(* of the definition errors (pint/errors.py).                              *)
(*                                                                         *)
(* Text is modelled at the level of characters: a Python str is a sequence *)
(* of one-character strings, so that split, strip, startswith and endswith *)
(* are computed as Python computes them.  An optional value (None or x)    *)
(* is the sequence <<>> or <<x>>.                                          *)
(***************************************************************************)
EXTENDS Integers, Sequences, FiniteSets, TLC

VARIABLES
    line,       \* the definition line handed to Definition.from_string
    defn,       \* what from_string returned or raised
    dpc,        \* "line": not parsed yet; "parsed": from_string has run
    added,      \* the add_aliases calls made of defn, with the aliases around each
    wrapped,    \* a wrapper built by wraps: ret, args, strict and the function
    wcall,      \* the call made of it: positional values and keyword value
    wout,       \* how the call went
    app,        \* _APP_REGISTRY: the object the module global refers to
    calls,      \* the set/get calls made so far, each with how it ended
    unp,        \* the _unpickle call made since the last of them, if any
    exc,        \* an exception object: its class, args, filename and lineno
    shown       \* str(exc), taken since its attributes were last assigned

dvars == <<line, defn, dpc, added>>
avars == <<app, calls, unp>>
wvars == <<wrapped, wcall, wout>>
evars == <<exc, shown>>
vars == <<dvars, avars, wvars, evars>>

\* What the actions of one part leave alone.
notDef == <<avars, wvars, evars>>
notApp == <<dvars, wvars, evars>>
notWrap == <<dvars, avars, evars>>
notErr == <<dvars, avars, wvars>>

\* Bound: how many '='-separated tokens may follow the value on a line.
MaxTokens == 3

------------------------------------------------------------------------------
(* Python str operations on character sequences.                            *)

None == <<>>
Some(x) == <<x>>

Drop(s, n) == SubSeq(s, n + 1, Len(s))

StartsWith(s, p) == Len(s) >= Len(p) /\ SubSeq(s, 1, Len(p)) = p

EndsWith(s, p) == Len(s) >= Len(p) /\ SubSeq(s, Len(s) - Len(p) + 1, Len(s)) = p

RECURSIVE LStripCh(_, _)
LStripCh(s, ch) ==
    IF s # <<>> /\ Head(s) = ch THEN LStripCh(Tail(s), ch) ELSE s

RECURSIVE RStripCh(_, _)
RStripCh(s, ch) ==
    IF s # <<>> /\ s[Len(s)] = ch THEN RStripCh(SubSeq(s, 1, Len(s) - 1), ch) ELSE s

StripCh(s, ch) == RStripCh(LStripCh(s, ch), ch)

\* str.strip(), str.lstrip(): the only whitespace of the model is the blank.
Strip(s) == StripCh(s, " ")
LStrip(s) == LStripCh(s, " ")

Contains(s, ch) == \E i \in 1..Len(s) : s[i] = ch

FirstIndex(s, ch) == CHOOSE i \in 1..Len(s) : s[i] = ch /\ \A j \in 1..(i - 1) : s[j] # ch

\* str.split(sep, maxsplit) for a one-character sep; maxsplit -1 is "no limit".
RECURSIVE SplitN(_, _, _)
SplitN(s, sep, n) ==
    IF n = 0 \/ ~Contains(s, sep)
    THEN <<s>>
    ELSE LET i == FirstIndex(s, sep)
         IN <<SubSeq(s, 1, i - 1)>> \o SplitN(Drop(s, i), sep, n - 1)

Split(s, sep) == SplitN(s, sep, -1)

MapStrip(ss) == [i \in 1..Len(ss) |-> Strip(ss[i])]

------------------------------------------------------------------------------
(* Numbers: a scale is a rational <<num, den>> in lowest terms, den > 0.    *)

Digits == {"0", "1", "2", "3", "4", "5", "6", "7", "8", "9"}

DigitVal(c) ==
    CASE c = "0" -> 0 [] c = "1" -> 1 [] c = "2" -> 2 [] c = "3" -> 3
      [] c = "4" -> 4 [] c = "5" -> 5 [] c = "6" -> 6 [] c = "7" -> 7
      [] c = "8" -> 8 [] c = "9" -> 9

IsNumber(s) == s # <<>> /\ \A i \in 1..Len(s) : s[i] \in Digits

RECURSIVE NumVal(_)
NumVal(s) ==
    IF s = <<>> THEN 0
    ELSE 10 * NumVal(SubSeq(s, 1, Len(s) - 1)) + DigitVal(s[Len(s)])

RECURSIVE GCD(_, _)
GCD(a, b) == IF b = 0 THEN a ELSE GCD(b, a % b)

Abs(n) == IF n < 0 THEN -n ELSE n

Rat(n, d) ==
    LET g == GCD(Abs(n), Abs(d))
        sgn == IF d < 0 THEN -1 ELSE 1
    IN <<sgn * (n \div g), sgn * (d \div g)>>

RatMul(a, b) == Rat(a[1] * b[1], a[2] * b[2])
RatDiv(a, b) == Rat(a[1] * b[2], a[2] * b[1])


------------------------------------------------------------------------------
(* UnitsContainer: a function from unit or dimension names to non-zero      *)
(* exponents.  ParserHelper: a UnitsContainer with a leading scale.         *)

EmptyUC == [k \in {} |-> 0]

\* Multiply the container by name^e; a key whose exponent becomes 0 is dropped.
UCAdd(uc, k, e) ==
    LET old == IF k \in DOMAIN uc THEN uc[k] ELSE 0
        dom == IF old + e = 0 THEN DOMAIN uc \ {k} ELSE DOMAIN uc \cup {k}
    IN [x \in dom |-> IF x = k THEN old + e ELSE uc[x]]

\* util._is_dim: the name is wrapped in brackets.
is_dim(name) == name # <<>> /\ name[1] = "[" /\ name[Len(name)] = "]"

NameChars ==
    {"a", "b", "c", "e", "f", "i", "k", "l", "o", "s", "t", "x", "_", "[", "]"} \cup Digits

IsName(s) ==
    /\ s # <<>>
    /\ s[1] \notin Digits
    /\ \A i \in 1..Len(s) : s[i] \in NameChars

\* The expression cut at its '*' and '/' operators: <<[op, txt], ...>>, the
\* first term under "*".
RECURSIVE TermsFrom(_, _)
TermsFrom(s, op) ==
    IF \E i \in 1..Len(s) : s[i] \in {"*", "/"}
    THEN LET i == CHOOSE j \in 1..Len(s) :
                     s[j] \in {"*", "/"} /\ \A h \in 1..(j - 1) : s[h] \notin {"*", "/"}
         IN <<[op |-> op, txt |-> Strip(SubSeq(s, 1, i - 1))]>>
                \o TermsFrom(Drop(s, i), s[i])
    ELSE <<[op |-> op, txt |-> Strip(s)]>>

PHError(e) == [ok |-> FALSE, err |-> e, scale |-> <<1, 1>>, uc |-> EmptyUC]

RECURSIVE EvalTerms(_, _)
EvalTerms(terms, acc) ==
    IF terms = <<>> \/ ~acc.ok THEN acc
    ELSE LET t == Head(terms)
             sign == IF t.op = "*" THEN 1 ELSE -1
             next ==
                 IF IsNumber(t.txt)
                 THEN IF t.op = "/" /\ NumVal(t.txt) = 0
                      THEN PHError("ZeroDivisionError")
                      ELSE [acc EXCEPT !.scale =
                               IF t.op = "*" THEN RatMul(@, <<NumVal(t.txt), 1>>)
                                             ELSE RatDiv(@, <<NumVal(t.txt), 1>>)]
                 ELSE IF IsName(t.txt)
                 THEN [acc EXCEPT !.uc = UCAdd(@, t.txt, sign)]
                 ELSE PHError("DefinitionSyntaxError")
         IN EvalTerms(Tail(terms), next)

\* ParserHelper.from_string on products and quotients of numbers and names:
\* the empty string is the empty container with scale 1.
ParserHelper_from_string(s) ==
    IF Strip(s) = <<>>
    THEN [ok |-> TRUE, err |-> "", scale |-> <<1, 1>>, uc |-> EmptyUC]
    ELSE EvalTerms(TermsFrom(s, "*"),
                   [ok |-> TRUE, err |-> "", scale |-> <<1, 1>>, uc |-> EmptyUC])

\* Python's eval on a modifier or prefix value: a decimal literal, blanks
\* around it allowed; anything else of the model's inputs raises.
Eval(s) ==
    IF IsNumber(Strip(s)) THEN [ok |-> TRUE, val |-> NumVal(Strip(s))]
    ELSE [ok |-> FALSE, val |-> 0]

------------------------------------------------------------------------------
(* Converters.                                                              *)

NoConverter == [type |-> "None", scale |-> <<0, 1>>, offset |-> 0]
ScaleConverter(scale) == [type |-> "Scale", scale |-> scale, offset |-> 0]
OffsetConverter(scale, offset) == [type |-> "Offset", scale |-> scale, offset |-> offset]

\* Converter.is_multiplicative
converter_is_multiplicative(c) == c.type = "Scale"

------------------------------------------------------------------------------
(* Definitions.  One record shape for what a constructor returns or raises: *)
(* ok says whether a definition was built, kind names the class whose       *)
(* constructor ran, err the exception raised.                               *)

\* Definition.__init__, with the attributes the subclasses set.
Definition(kind, name, symbol, aliases, converter, reference, is_base) ==
    [ok |-> TRUE, err |-> "", kind |-> kind, name |-> name, symbol |-> symbol,
     aliases |-> aliases, converter |-> converter, reference |-> reference,
     is_base |-> is_base]

\* A constructor of class kind raised err: no definition exists.
Raised(kind, err) ==
    [ok |-> FALSE, err |-> err, kind |-> kind, name |-> <<>>, symbol |-> None,
     aliases |-> <<>>, converter |-> NoConverter, reference |-> None,
     is_base |-> FALSE]

\* Definition.symbol, Definition.has_symbol: None and '' are both "no symbol".
Truthy(opt) == opt # None /\ opt[1] # <<>>
symbol_of(d) == IF Truthy(d.symbol) THEN d.symbol[1] ELSE d.name
has_symbol(d) == Truthy(d.symbol)

\* Definition.is_multiplicative
is_multiplicative(d) == converter_is_multiplicative(d.converter)

\* PrefixDefinition.__init__ with a str converter.
PrefixDefinition(name, symbol, aliases, value) ==
    LET v == Eval(value)
        stripped == [i \in 1..Len(aliases) |-> StripCh(aliases[i], "-")]
        sym == IF Truthy(symbol) THEN Some(StripCh(symbol[1], "-")) ELSE symbol
    IN IF ~v.ok THEN Raised("Prefix", "EvalError")
       ELSE Definition("Prefix", name, sym, stripped,
                       ScaleConverter(<<v.val, 1>>), None, FALSE)

\* The modifiers dict of UnitDefinition.__init__: each ';'-separated part is
\* cut at its ':' into exactly a key and a value, the value is evaluated.
\* <<[key, val], ...>> in the order given: a later key overrides an earlier.
ModifierParts(text) == Split(text, ";")

ModifiersOk(text) ==
    \A i \in 1..Len(ModifierParts(text)) :
        LET kv == Split(ModifierParts(text)[i], ":")
        IN Len(kv) = 2 /\ Eval(kv[2]).ok

Modifiers(text) ==
    [i \in 1..Len(ModifierParts(text)) |->
        LET kv == Split(ModifierParts(text)[i], ":")
        IN [key |-> Strip(kv[1]), val |-> Eval(kv[2]).val]]

\* modifiers.get(key, default)
ModGet(mods, key, default) ==
    IF \E i \in 1..Len(mods) : mods[i].key = key
    THEN mods[CHOOSE i \in 1..Len(mods) :
                  mods[i].key = key /\ \A j \in (i + 1)..Len(mods) : mods[j].key # key].val
    ELSE default

cOffset == <<"o", "f", "f", "s", "e", "t">>

\* UnitDefinition.__init__, lines 126-133: "base", "derived" or "mixed".
UnitBaseKind(keys) ==
    IF ~(\E k \in keys : is_dim(k)) THEN "derived"
    ELSE IF \A k \in keys : is_dim(k) THEN "base"
    ELSE "mixed"

\* A mutant of UnitConverter: the offset converter whenever the key is given.
UnitConverter_AnyOffset(scale, mods) ==
    IF \E i \in 1..Len(mods) : mods[i].key = cOffset
    THEN OffsetConverter(scale, ModGet(mods, cOffset, 0))
    ELSE ScaleConverter(scale)

\* UnitDefinition.__init__, lines 135-139.
UnitConverter(scale, mods) ==
    IF ModGet(mods, cOffset, 0) # 0
    THEN OffsetConverter(scale, ModGet(mods, cOffset, 0))
    ELSE ScaleConverter(scale)

\* UnitDefinition.__init__ with a str converter.
UnitDefinition(name, symbol, aliases, value) ==
    LET hasMods == Contains(value, ";")
        cut == SplitN(value, ";", 2)
        expr == IF hasMods THEN cut[1] ELSE value
        ph == ParserHelper_from_string(expr)
    IN IF hasMods /\ Len(cut) # 2 THEN Raised("Unit", "ValueError")
       ELSE IF hasMods /\ ~ModifiersOk(cut[2]) THEN Raised("Unit", "ModifierError")
       ELSE IF ~ph.ok THEN Raised("Unit", ph.err)
       ELSE IF UnitBaseKind(DOMAIN ph.uc) = "mixed" THEN Raised("Unit", "ValueError")
       ELSE Definition("Unit", name, symbol, aliases,
                       UnitConverter(ph.scale, IF hasMods THEN Modifiers(cut[2]) ELSE <<>>),
                       Some(ph.uc), UnitBaseKind(DOMAIN ph.uc) = "base")

\* A mutant of DimensionBaseKind: the test of UnitDefinition in its place.
DimensionBaseKind_AsUnit(keys) ==
    IF \A k \in keys : is_dim(k) THEN "base" ELSE "error"

\* DimensionDefinition.__init__, lines 154-161: "base", "derived" or "error".
DimensionBaseKind(keys) ==
    IF keys = {} THEN "base"
    ELSE IF \A k \in keys : is_dim(k) THEN "derived"
    ELSE "error"

\* DimensionDefinition.__init__ with a str converter.
DimensionDefinition(name, symbol, aliases, value) ==
    LET ph == ParserHelper_from_string(value)
    IN IF ~ph.ok THEN Raised("Dimension", ph.err)
       ELSE IF DimensionBaseKind(DOMAIN ph.uc) = "error"
       THEN Raised("Dimension", "ValueError")
       ELSE Definition("Dimension", name, symbol, aliases, NoConverter,
                       Some(ph.uc), DimensionBaseKind(DOMAIN ph.uc) = "base")

\* AliasDefinition.__init__
AliasDefinition(name, aliases) ==
    Definition("Alias", name, None, aliases, NoConverter, None, FALSE)

cAlias == <<"@", "a", "l", "i", "a", "s", " ">>

\* from_string, lines 49-54: the symbol and the aliases from the stripped
\* tokens that follow the value.
NonEmptyTokens(tokens) == SelectSeq(tokens, LAMBDA x : x # <<>>)

SymbolOfTokens(tokens) ==
    LET al == NonEmptyTokens(tokens)
    IN IF al # <<>> /\ al[1] # <<"_">> THEN Some(al[1]) ELSE None

\* A mutant of AliasesOfTokens: the symbol is left among the aliases.
AliasesOfTokens_KeepsSymbol(tokens) ==
    SelectSeq(NonEmptyTokens(tokens), LAMBDA x : x # <<"_">>)

AliasesOfTokens(tokens) ==
    LET al == NonEmptyTokens(tokens)
    IN IF al # <<>> THEN SelectSeq(Tail(al), LAMBDA x : x # <<"_">>) ELSE <<>>

\* A mutant of KindOfName: the prefix marker is tested first.
KindOfName_PrefixFirst(name) ==
    IF EndsWith(name, <<"-">>) THEN "Prefix"
    ELSE IF StartsWith(name, <<"[">>) THEN "Dimension"
    ELSE "Unit"

\* from_string, lines 56-62: the class a name selects.
KindOfName(name) ==
    IF StartsWith(name, <<"[">>) THEN "Dimension"
    ELSE IF EndsWith(name, <<"-">>) THEN "Prefix"
    ELSE "Unit"

\* from_string, line 59.
PrefixName(name) == RStripCh(name, "-")

\* from_string, lines 45-47.
IsAliasLine(name) == StartsWith(name, cAlias)
\* A mutant of AliasTarget: the blanks after '@alias ' are kept.
AliasTarget_NoLStrip(name) == Drop(name, Len(cAlias))

AliasTarget(name) == LStrip(Drop(name, Len(cAlias)))

\* Definition.from_string
from_string(text) ==
    LET cut == SplitN(text, "=", 1)
        name == Strip(cut[1])
        result == MapStrip(Split(cut[2], "="))
        value == result[1]
        symbol == SymbolOfTokens(Tail(result))
        aliases == AliasesOfTokens(Tail(result))
    IN IF Len(cut) # 2 THEN Raised("none", "ValueError")
       ELSE IF IsAliasLine(name) THEN AliasDefinition(AliasTarget(name), result)
       ELSE IF KindOfName(name) = "Dimension"
       THEN DimensionDefinition(name, symbol, aliases, value)
       ELSE IF KindOfName(name) = "Prefix"
       THEN PrefixDefinition(PrefixName(name), symbol, aliases, value)
       ELSE UnitDefinition(name, symbol, aliases, value)

------------------------------------------------------------------------------
(* The definition lines the parser is run on: <name> = <value> [= <token>]* *)

LineNames ==
    { <<"a">>, <<" ", "a", " ">>, <<"[", "a", "]">>, <<"[", "a">>,
      <<"k", "-">>, <<"k", "-", "-">>, <<"[", "a", "-">>,
      cAlias \o <<"a">>, cAlias \o <<" ", "[", "a", "]">>, cAlias \o <<"k", "-">>,
      <<"@", "a", "l", "i", "a", "s">> }

LineValues ==
    { <<>>, <<"1">>, <<"2", "0">>, <<"b">>, <<"[", "a", "]">>, <<"[", "]">>,
      <<"[", "a", "]", "*", "b">>, <<"2", " ", "*", " ", "b">>,
      <<"[", "a", "]", "/", "[", "b", "]">>, <<"b", "/", "b">>, <<"b", "*">>,
      <<"b", ";", " ">> \o cOffset \o <<":", " ", "1">>,
      <<"2", "*", "b", ";">> \o cOffset \o <<":", "0">>,
      <<"[", "a", "]", ";">> \o cOffset \o <<":", "3", "2">>,
      <<"b", ";", "x", ":", "1">>,
      <<"b", ";">> \o cOffset,
      <<"b", ";">> \o cOffset \o <<":", "1", ";", "x", ":", "1">>,
      <<"b", ";", "x", ":", "1", ";">> \o cOffset \o <<":", "1">> }

LineTokens == { <<>>, <<"_">>, <<"s">>, <<" ", "-", "t", "-">>, <<"-">> }

TokenSeqs == UNION { [1..n -> LineTokens] : n \in 0..MaxTokens }

RECURSIVE JoinTokens(_)
JoinTokens(toks) ==
    IF toks = <<>> THEN <<>> ELSE <<"=">> \o Head(toks) \o JoinTokens(Tail(toks))

MakeLine(name, value, toks) == name \o <<"=">> \o value \o JoinTokens(toks)

Lines == { MakeLine(n, v, t) : n \in LineNames, v \in LineValues, t \in TokenSeqs }

NoDefinition == Raised("none", "")

\* The other parts at rest: the module as imported, no call made.
NoUnpickle ==
    [called |-> FALSE, pickle |-> [origin |-> "default", args |-> <<>>],
     parsed |-> <<>>, err |-> "", built |-> FALSE]

NoWrapper == [ret |-> <<>>, args |-> <<>>, strict |-> TRUE, func |-> <<>>]
NoCall == [pos |-> <<>>, kw |-> <<>>]
NoOutcome ==
    [called |-> FALSE, err |-> "", log |-> <<>>, passed |-> <<>>,
     result |-> [seq |-> FALSE, items |-> <<>>], ret |-> [cls |-> "none", items |-> <<>>]]

NoException ==
    [cls |-> "none", args |-> <<>>, filename |-> None, lineno |-> None,
     given |-> [filename |-> None, lineno |-> None], assigned |-> 0]
NoShown == [called |-> FALSE, text |-> <<>>]

DefInit ==
    /\ line \in Lines
    /\ defn = NoDefinition
    /\ dpc = "line"
    /\ app = "default"
    /\ calls = <<>>
    /\ unp = NoUnpickle
    /\ wrapped = NoWrapper
    /\ wcall = NoCall
    /\ wout = NoOutcome
    /\ exc = NoException
    /\ shown = NoShown
    /\ added = <<>>

\* A call of Definition.from_string(line).
FromString ==
    /\ dpc = "line"
    /\ defn' = from_string(line)
    /\ dpc' = "parsed"
    /\ UNCHANGED <<line, added, notDef>>

DefNext == FromString

------------------------------------------------------------------------------
(* What the claims say about a line, read off the line itself.              *)

\* The stripped text before the first '='.
NameOfLine(l) == Strip(SplitN(l, "=", 1)[1])

\* The stripped '='-separated texts after the first '=': the value first.
FieldsOfLine(l) == MapStrip(Split(SplitN(l, "=", 1)[2], "="))

ValueOfLine(l) == FieldsOfLine(l)[1]

\* The expression of a unit value: the text before the first ';'.
ExprOfValue(v) == SplitN(v, ";", 1)[1]

AliasForm(l) == StartsWith(NameOfLine(l), cAlias)

Parsed == dpc = "parsed"

\* C1 (as claimed): a Unit definition is base iff its parsed reference is
\* empty or has only dimension names as keys, and a reference mixing
\* dimension names and unit names is rejected.
C1_IsBaseIffEmptyOrAllDim ==
    (Parsed /\ defn.kind = "Unit") =>
        LET ph == ParserHelper_from_string(ExprOfValue(ValueOfLine(line)))
            keys == DOMAIN ph.uc
            mixed == (\E k \in keys : is_dim(k)) /\ (\E k \in keys : ~is_dim(k))
        IN /\ defn.ok => (defn.is_base <=> \A k \in keys : is_dim(k))
           /\ (ph.ok /\ mixed) => ~defn.ok

\* C2: a line that is not an '@alias' line is handed to the constructor its
\* name selects: Dimension for a leading '[', else Prefix for a trailing '-'
\* (stored without its trailing '-'), else Unit.
C2_DispatchOnNameShape ==
    (Parsed /\ ~AliasForm(line)) =>
        LET nm == NameOfLine(line)
        IN /\ defn.kind \in {"Dimension", "Prefix", "Unit"}
           /\ defn.kind = "Dimension" <=> nm[1] = "["
           /\ defn.kind = "Prefix" <=> (nm[1] # "[" /\ nm[Len(nm)] = "-")
           /\ (defn.ok /\ defn.kind = "Prefix") =>
                 /\ Len(defn.name) < Len(nm)
                 /\ defn.name = SubSeq(nm, 1, Len(defn.name))
                 /\ \A i \in (Len(defn.name) + 1)..Len(nm) : nm[i] = "-"
                 /\ (defn.name = <<>> \/ defn.name[Len(defn.name)] # "-")
           /\ (defn.ok /\ defn.kind # "Prefix") => defn.name = nm

C2_Witness ==
    /\ Parsed /\ defn.ok /\ defn.kind = "Prefix"
    /\ NameOfLine(line) = <<"k", "-", "-">> /\ defn.name = <<"k">>

\* C3 (as claimed): the first token after the value is the symbol, '_' (or
\* nothing) for none, and the tokens after it, those equal to '_' (or
\* empty) dropped, are the aliases.
C3_FirstTokenIsSymbol ==
    (Parsed /\ ~AliasForm(line) /\ defn.ok) =>
        LET toks == Tail(FieldsOfLine(line))
        IN /\ toks = <<>> => (~has_symbol(defn) /\ defn.aliases = <<>>)
           /\ (toks # <<>> /\ toks[1] \in {<<"_">>, <<>>}) =>
                 (~has_symbol(defn) /\ symbol_of(defn) = defn.name)
           /\ (toks # <<>> /\ toks[1] \notin {<<"_">>, <<>>}) =>
                 (has_symbol(defn) /\ symbol_of(defn) = toks[1])
           /\ toks # <<>> =>
                 defn.aliases = SelectSeq(Tail(toks), LAMBDA x : x \notin {<<"_">>, <<>>})

\* C3 (amended): empty tokens are skipped; of the tokens left the first is
\* the symbol, '_' for none, and the others, those equal to '_' dropped, are
\* the aliases in their order; a Prefix stores symbol and aliases with the
\* '-' at both ends removed, and a symbol that is then empty is no symbol.
C3_StoredText(kind, tok) == IF kind = "Prefix" THEN StripCh(tok, "-") ELSE tok

C3_SymbolAndAliases ==
    (Parsed /\ ~AliasForm(line) /\ defn.ok) =>
        LET toks == SelectSeq(Tail(FieldsOfLine(line)), LAMBDA x : x # <<>>)
            kept == SelectSeq(Tail(toks), LAMBDA x : x # <<"_">>)
            sym == C3_StoredText(defn.kind, toks[1])
        IN /\ toks = <<>> => (~has_symbol(defn) /\ defn.aliases = <<>>)
           /\ (toks # <<>> /\ (toks[1] = <<"_">> \/ sym = <<>>)) =>
                 (~has_symbol(defn) /\ symbol_of(defn) = defn.name)
           /\ (toks # <<>> /\ toks[1] # <<"_">> /\ sym # <<>>) =>
                 (has_symbol(defn) /\ symbol_of(defn) = sym)
           /\ toks # <<>> =>
                 /\ Len(defn.aliases) = Len(kept)
                 /\ \A i \in 1..Len(kept) :
                        defn.aliases[i] = C3_StoredText(defn.kind, kept[i])

C3_Witness ==
    /\ Parsed /\ defn.ok /\ defn.kind = "Unit"
    /\ Tail(FieldsOfLine(line)) = << <<"_">>, <<"s">>, <<"-", "t", "-">> >>
    /\ ~has_symbol(defn)
    /\ defn.aliases = << <<"s">>, <<"-", "t", "-">> >>

\* C4: an '@alias <name>' line always gives an Alias definition, named <name>,
\* whose aliases are the '='-separated tokens after the first '=', in order.
C4_AliasLine ==
    (Parsed /\ AliasForm(line)) =>
        /\ defn.ok /\ defn.kind = "Alias"
        /\ defn.name = Strip(Drop(NameOfLine(line), Len(cAlias)))
        /\ defn.aliases = FieldsOfLine(line)

C4_Witness ==
    /\ Parsed /\ defn.kind = "Alias"
    /\ defn.name = <<"k", "-">>
    /\ defn.aliases = << <<"b">>, <<"s">>, <<"_">> >>

\* The offset a unit value asks for: the number of its 'offset' modifier, 0
\* when it has none.
C5_OffsetOfValue(v) ==
    LET parts == Split(v, ";")
        kv == Split(parts[2], ":")
    IN IF Len(parts) = 2 /\ Len(kv) = 2 /\ Strip(kv[1]) = cOffset /\ IsNumber(Strip(kv[2]))
       THEN NumVal(Strip(kv[2])) ELSE 0

\* C5: a Unit definition is multiplicative iff its converter is a
\* ScaleConverter; a non-zero offset gives an OffsetConverter with the parsed
\* scale and that offset, no offset or offset 0 a ScaleConverter with the
\* parsed scale.
C5_ConverterFollowsOffset ==
    (Parsed /\ defn.ok /\ defn.kind = "Unit") =>
        LET v == ValueOfLine(line)
            off == C5_OffsetOfValue(v)
            scale == ParserHelper_from_string(ExprOfValue(v)).scale
        IN /\ is_multiplicative(defn) <=> defn.converter.type = "Scale"
           /\ off # 0 => (defn.converter = [type |-> "Offset", scale |-> scale,
                                            offset |-> off]
                           /\ ~is_multiplicative(defn))
           /\ off = 0 => (defn.converter = [type |-> "Scale", scale |-> scale,
                                            offset |-> 0]
                           /\ is_multiplicative(defn))

C5_Witness ==
    /\ Parsed /\ defn.ok /\ defn.kind = "Unit"
    /\ C5_OffsetOfValue(ValueOfLine(line)) = 32
    /\ defn.converter.type = "Offset"

\* C6: a Dimension definition is base iff its parsed reference has no keys; a
\* non-empty reference of dimension names gives a derived dimension; a key
\* that is no dimension name is rejected; a Dimension carries no converter.
C6_DimensionIsBaseIffNoKeys ==
    (Parsed /\ defn.kind = "Dimension") =>
        LET ph == ParserHelper_from_string(ValueOfLine(line))
            keys == DOMAIN ph.uc
        IN /\ defn.ok => /\ defn.is_base <=> keys = {}
                         /\ defn.reference = Some(ph.uc)
                         /\ defn.converter.type = "None"
           /\ (ph.ok /\ \A k \in keys : is_dim(k)) => defn.ok
           /\ (ph.ok /\ \E k \in keys : ~is_dim(k)) => ~defn.ok

C6_Witness ==
    /\ Parsed /\ defn.ok /\ defn.kind = "Dimension"
    /\ ~defn.is_base
    /\ DOMAIN defn.reference[1] = { <<"[", "a", "]">>, <<"[", "b", "]">> }

C6_WitnessRejected ==
    /\ Parsed /\ ~defn.ok /\ defn.kind = "Dimension"
    /\ ValueOfLine(line) = <<"b">>

------------------------------------------------------------------------------
(* The application registry (pint/__init__.py).                             *)

\* Bounds: the calls of one run, and the unit names of one UnitsContainer.
MaxCalls == 3
MaxNames == 2

DefaultRegistry == "default"

\* The objects a caller may pass, with their classes.
Registries == {"default", "ureg1", "ureg2"}
Objects == Registries \cup {"none", "text"}

ClassOf(obj) ==
    CASE obj = "default" -> "LazyRegistry"
      [] obj \in {"ureg1", "ureg2"} -> "UnitRegistry"
      [] obj = "none" -> "NoneType"
      [] obj = "text" -> "str"

\* isinstance(registry, (LazyRegistry, UnitRegistry))
IsRegistry(obj) == ClassOf(obj) \in {"LazyRegistry", "UnitRegistry"}

\* The unit names each registry resolves: parse_units(name) raises
\* UndefinedUnitError for any other name.
UnitNames == {"meter", "foo", "bar"}

Defined(reg) ==
    CASE reg = "default" -> {"meter"}
      [] reg = "ureg1" -> {"foo", "bar"}
      [] reg = "ureg2" -> {"meter", "foo"}

\* UnitsContainers as the sequence of their names in iteration order, and the
\* argument tuples a pickle holds: a magnitude ("num") or a UnitsContainer.
NameSeqs ==
    { q \in UNION { [1..n -> UnitNames] : n \in 0..MaxNames } :
        \A i, j \in 1..Len(q) : i # j => q[i] # q[j] }

IsUC(arg) == arg.type = "UnitsContainer"
UC(names) == [type |-> "UnitsContainer", names |-> names]
Num == [type |-> "number", names |-> <<>>]

ArgTuples ==
    { <<UC(q)>> : q \in NameSeqs }
        \cup { <<Num, UC(q)>> : q \in NameSeqs }
        \cup { <<UC(q), UC(r)>> : q, r \in {x \in NameSeqs : Len(x) = 1} }

\* The names of the UnitsContainer arguments, in the order _unpickle meets them.
RECURSIVE NamesOfArgs(_)
NamesOfArgs(args) ==
    IF args = <<>> THEN <<>>
    ELSE (IF IsUC(Head(args)) THEN Head(args).names ELSE <<>>) \o NamesOfArgs(Tail(args))

\* A pickle was made by a registry that knows every unit of it.
Pickles ==
    { [origin |-> r, args |-> a] : r \in Registries, a \in ArgTuples } 

ValidPickle(p) == \A i \in 1..Len(NamesOfArgs(p.args)) : NamesOfArgs(p.args)[i] \in Defined(p.origin)

\* A mutant of UnpickleRegistry: the default registry is asked.
UnpickleRegistry_Default(current) == DefaultRegistry

\* The registry _unpickle asks: the module global, read at the call.
UnpickleRegistry(current) == current

\* The parse_units calls of the loop of _unpickle, lines 66-72: one per name,
\* up to and including the first the registry does not resolve.
RECURSIVE ParseCalls(_, _)
ParseCalls(names, reg) ==
    IF names = <<>> THEN <<>>
    ELSE IF Head(names) \in Defined(reg)
    THEN <<[reg |-> reg, name |-> Head(names)]>> \o ParseCalls(Tail(names), reg)
    ELSE <<[reg |-> reg, name |-> Head(names)]>>

\* _unpickle(cls, *args): the parse_units calls made, then either the
\* exception that left the loop or the call cls(*args).
unpickle(current, p) ==
    LET names == NamesOfArgs(p.args)
        log == ParseCalls(names, UnpickleRegistry(current))
        failed == \E i \in 1..Len(log) : log[i].name \notin Defined(log[i].reg)
    IN [called |-> TRUE, pickle |-> p, parsed |-> log,
        err |-> IF failed THEN "UndefinedUnitError" ELSE "",
        built |-> ~failed]

\* A mutant of set_application_registry: the global is assigned before the
\* type check.
set_application_registry_AssignFirst(current, registry) ==
    [app |-> registry, err |-> IF IsRegistry(registry) THEN "" ELSE "TypeError"]

\* set_application_registry(registry): the global after the call and the
\* exception raised, if any.
set_application_registry(current, registry) ==
    IF ~IsRegistry(registry)
    THEN [app |-> current, err |-> "TypeError"]
    ELSE [app |-> registry, err |-> ""]

\* get_application_registry()
get_application_registry(current) == current

AppInit ==
    /\ app = DefaultRegistry
    /\ calls = <<>>
    /\ unp = NoUnpickle
    /\ line = <<>>
    /\ defn = NoDefinition
    /\ dpc = "idle"
    /\ wrapped = NoWrapper
    /\ wcall = NoCall
    /\ wout = NoOutcome
    /\ exc = NoException
    /\ shown = NoShown
    /\ added = <<>>

\* set_application_registry(registry)
SetApplicationRegistry(registry) ==
    /\ Len(calls) < MaxCalls
    /\ app' = set_application_registry(app, registry).app
    /\ calls' = Append(calls, [op |-> "set", arg |-> registry,
                               err |-> set_application_registry(app, registry).err,
                               before |-> app, ret |-> "none"])
    /\ unp' = NoUnpickle
    /\ UNCHANGED notApp

\* get_application_registry()
GetApplicationRegistry ==
    /\ Len(calls) < MaxCalls
    /\ calls' = Append(calls, [op |-> "get", arg |-> "none", err |-> "",
                               before |-> app, ret |-> get_application_registry(app)])
    /\ unp' = NoUnpickle
    /\ UNCHANGED <<app, notApp>>

\* _unpickle(cls, *args) on a pickle made earlier by some registry; one
\* such call is followed after each set or get (a second one would end the same).
Unpickle(p) ==
    /\ ~unp.called
    /\ ValidPickle(p)
    /\ unp' = unpickle(app, p)
    /\ UNCHANGED <<app, calls, notApp>>

AppNext ==
    \/ \E registry \in Objects : SetApplicationRegistry(registry)
    \/ GetApplicationRegistry
    \/ \E p \in Pickles : Unpickle(p)

\* The registry the first k calls leave current, going by how they ended:
\* the argument of the last set among them that raised nothing, else the default.
RECURSIVE C7_LastSet(_)
C7_LastSet(k) ==
    IF k = 0 THEN DefaultRegistry
    ELSE IF calls[k].op = "set" /\ calls[k].err = "" THEN calls[k].arg
    ELSE C7_LastSet(k - 1)

\* The global after call i.
C7_After(i) == IF i < Len(calls) THEN calls[i + 1].before ELSE app

\* C7: get returns the registry of the most recent successful set, the
\* default when there is none; a set whose argument is no UnitRegistry or
\* LazyRegistry raises TypeError and leaves the global as it was.
C7_GetReturnsLastSet ==
    /\ app = C7_LastSet(Len(calls))
    /\ \A i \in 1..Len(calls) :
          /\ calls[i].op = "get" => calls[i].ret = C7_LastSet(i - 1)
          /\ (calls[i].op = "set"
                /\ ClassOf(calls[i].arg) \notin {"UnitRegistry", "LazyRegistry"}) =>
                 (calls[i].err = "TypeError" /\ C7_After(i) = calls[i].before)
          /\ (calls[i].op = "set"
                /\ ClassOf(calls[i].arg) \in {"UnitRegistry", "LazyRegistry"}) =>
                 calls[i].err = ""

C7_Witness ==
    /\ Len(calls) = 3
    /\ calls[1].op = "set" /\ calls[1].arg = "ureg1"
    /\ calls[2].op = "set" /\ calls[2].arg = "text" /\ calls[2].err = "TypeError"
    /\ calls[3].op = "get" /\ calls[3].ret = "ureg1"

\* C8: _unpickle passes every unit name of its UnitsContainer arguments, in
\* order, to parse_units of the registry that is current at the call, and
\* only then builds the object; a name the current registry does not define
\* raises UndefinedUnitError and nothing is built.
C8_UnpickleAsksCurrentRegistry ==
    unp.called =>
        LET names == NamesOfArgs(unp.pickle.args)
            known == \A i \in 1..Len(names) : names[i] \in Defined(app)
        IN /\ Len(unp.parsed) <= Len(names)
           /\ \A i \in 1..Len(unp.parsed) :
                  unp.parsed[i] = [reg |-> app, name |-> names[i]]
           /\ known => (unp.built /\ unp.err = "" /\ Len(unp.parsed) = Len(names))
           /\ ~known => (~unp.built /\ unp.err = "UndefinedUnitError")

C8_Witness ==
    /\ unp.called /\ unp.built
    /\ app = "ureg2" /\ unp.pickle.origin = "ureg1"
    /\ unp.parsed = <<[reg |-> "ureg2", name |-> "foo"]>>

C8_WitnessUndefined ==
    /\ unp.called /\ ~unp.built /\ unp.err = "UndefinedUnitError"
    /\ app = "default" /\ unp.pickle.origin = "ureg1"
    /\ NamesOfArgs(unp.pickle.args) = <<"foo">>

------------------------------------------------------------------------------
(* Quantities, units and conversion for the wrappers                        *)
(* (pint/registry_helpers.py).  A value is a quantity of the registry, with *)
(* a magnitude and a UnitsContainer, or a bare number.                      *)

\* Bound: the parameters of a wrapped function.
MaxParams == 2

Q(mag, uc) == [isq |-> TRUE, mag |-> mag, units |-> uc]
Bare(mag) == [isq |-> FALSE, mag |-> mag, units |-> EmptyUC]

\* getattr(value, "_magnitude", value) and getattr(value, "_units", UnitsContainer({}))
MagnitudeOf(v) == Bare(v.mag)
UnitsOf(v) == IF v.isq THEN v.units ELSE EmptyUC

Exp(uc, k) == IF k \in DOMAIN uc THEN uc[k] ELSE 0

UCMul(a, b) ==
    [k \in {x \in DOMAIN a \cup DOMAIN b : Exp(a, x) + Exp(b, x) # 0} |->
        Exp(a, k) + Exp(b, k)]

UCPow(a, e) == [k \in {x \in DOMAIN a : a[x] * e # 0} |-> a[k] * e]

UCm == [k \in {"m"} |-> 1]
UCcm == [k \in {"cm"} |-> 1]
UCs == [k \in {"s"} |-> 1]

\* The registry's units: a meter is 100 centimeters; second is a time.
Dimensionality(uc) ==
    [d \in {"length", "time"} |->
        IF d = "length" THEN Exp(uc, "m") + Exp(uc, "cm") ELSE Exp(uc, "s")]

RECURSIVE RatPow(_, _)
RatPow(r, e) ==
    IF e = 0 THEN <<1, 1>>
    ELSE IF e > 0 THEN RatMul(r, RatPow(r, e - 1))
    ELSE RatDiv(RatPow(r, e + 1), r)

FactorOf(uc) == RatPow(<<100, 1>>, Exp(uc, "m"))

\* ureg._convert(value, src, dst)
CanConvert(src, dst) == Dimensionality(src) = Dimensionality(dst)
Convert(mag, src, dst) == RatMul(mag, RatDiv(FactorOf(src), FactorOf(dst)))

------------------------------------------------------------------------------
(* wraps: the declarations.  What _to_units_container makes of a declared   *)
(* unit: kind "none" for None, "units" for a unit expression, "ref" for a   *)
(* string with '=' (is_ref), with the expression's UnitsContainer.          *)

DNone == [kind |-> "none", uc |-> EmptyUC]
DUnits(uc) == [kind |-> "units", uc |-> uc]
DRef(uc) == [kind |-> "ref", uc |-> uc]

RefA == [k \in {"A"} |-> 1]
RefA2 == [k \in {"A"} |-> 2]

\* _parse_wrap_args, lines 62-81: the class of each declared argument, in
\* order: "none", "def" (a definition), "dep" (a dependent) or "unit".
RECURSIVE ClassifyArgs(_, _)
ClassifyArgs(args, defs) ==
    IF args = <<>> THEN <<>>
    ELSE LET a == Head(args)
             key == CHOOSE k \in DOMAIN a.uc : TRUE
             isDef == /\ a.kind = "ref"
                      /\ Cardinality(DOMAIN a.uc) = 1
                      /\ a.uc[key] = 1 /\ key \notin defs
             cls == IF a.kind = "none" THEN "none"
                    ELSE IF a.kind = "ref" THEN (IF isDef THEN "def" ELSE "dep")
                    ELSE "unit"
         IN <<cls>> \o ClassifyArgs(Tail(args), IF isDef THEN defs \cup {key} ELSE defs)

\* The name a definition argument defines.
DefName(a) == CHOOSE k \in DOMAIN a.uc : TRUE

\* _replace_units(original_units, values_by_name): the units of the product
\* of the named values, each to its exponent; a bare number has no units.
RECURSIVE ReplaceUnitsOver(_, _, _)
ReplaceUnitsOver(keys, original, byName) ==
    IF keys = {} THEN EmptyUC
    ELSE LET k == CHOOSE x \in keys : TRUE
         IN UCMul(UCPow(UnitsOf(byName[k]), original[k]),
                  ReplaceUnitsOver(keys \ {k}, original, byName))

replace_units(original, byName) == ReplaceUnitsOver(DOMAIN original, original, byName)

CanReplace(original, byName) == DOMAIN original \subseteq DOMAIN byName

\* _converter, first pass (lines 98-101): the values of the definitions.
ValuesByName(args, cls, values) ==
    [name \in {DefName(args[i]) : i \in {j \in 1..Len(args) : cls[j] = "def"}} |->
        values[CHOOSE i \in 1..Len(args) : cls[i] = "def" /\ DefName(args[i]) = name]]

\* A mutant of ConvertUnitArg: the magnitude is taken as it is.
ConvertUnitArg_NoConversion(value, decl) == Bare(value.mag)

\* _converter, third pass (lines 114-117): a quantity at a unit-tagged position.
ConvertUnitArg(value, decl) == Bare(Convert(value.mag, value.units, decl.uc))

\* _converter, second pass (lines 105-109): a dependent argument.
ConvertDependentArg(value, decl, byName) ==
    Bare(Convert(value.mag, UnitsOf(value), replace_units(decl.uc, byName)))

\* A mutant of ConverterErrorAt: strict is not looked at.
ConverterErrorAt_NeverStrict(args, cls, values, strict, i) ==
    LET byName == ValuesByName(args, cls, values)
    IN IF cls[i] = "dep"
       THEN IF ~CanReplace(args[i].uc, byName) THEN "KeyError"
            ELSE IF ~CanConvert(UnitsOf(values[i]), replace_units(args[i].uc, byName))
            THEN "DimensionalityError" ELSE ""
       ELSE IF cls[i] = "unit" /\ values[i].isq
       THEN IF CanConvert(values[i].units, args[i].uc) THEN "" ELSE "DimensionalityError"
       ELSE ""

\* What _converter raises at position i, "" for nothing.
ConverterErrorAt(args, cls, values, strict, i) ==
    LET byName == ValuesByName(args, cls, values)
    IN IF cls[i] = "dep"
       THEN IF ~CanReplace(args[i].uc, byName) THEN "KeyError"
            ELSE IF ~CanConvert(UnitsOf(values[i]), replace_units(args[i].uc, byName))
            THEN "DimensionalityError" ELSE ""
       ELSE IF cls[i] = "unit"
       THEN IF values[i].isq
            THEN IF CanConvert(values[i].units, args[i].uc) THEN "" ELSE "DimensionalityError"
            ELSE IF strict THEN "ValueError" ELSE ""
       ELSE ""

\* _converter(ureg, values, strict): the exception raised, or the new values
\* and the values by name.  The passes run in order, each over its positions.
converter(args, values, strict) ==
    LET cls == ClassifyArgs(args, {})
        n == Len(args)
        byName == ValuesByName(args, cls, values)
        errAt(i) == ConverterErrorAt(args, cls, values, strict, i)
        bad(c) == {i \in 1..n : cls[i] = c /\ errAt(i) # ""}
        firstBad(c) == CHOOSE i \in bad(c) : \A j \in bad(c) : i <= j
    IN IF \E i \in 1..n : cls[i] # "none" /\ i > Len(values)
       THEN [err |-> "IndexError", new_values |-> <<>>, byName |-> <<>>]
       ELSE IF bad("dep") # {}
       THEN [err |-> errAt(firstBad("dep")), new_values |-> <<>>, byName |-> <<>>]
       ELSE IF bad("unit") # {}
       THEN [err |-> errAt(firstBad("unit")), new_values |-> <<>>, byName |-> <<>>]
       ELSE [err |-> "",
             new_values |->
                 [i \in 1..Len(values) |->
                     IF i > n THEN values[i]
                     ELSE IF cls[i] = "def" THEN MagnitudeOf(values[i])
                     ELSE IF cls[i] = "dep"
                     THEN ConvertDependentArg(values[i], args[i], byName)
                     ELSE IF cls[i] = "unit" /\ values[i].isq
                     THEN ConvertUnitArg(values[i], args[i])
                     ELSE values[i]],
             byName |-> byName]

------------------------------------------------------------------------------
(* wraps: the wrapper.  A wrapped function has n parameters, the last with  *)
(* a default or not, and returns bare numbers: its first argument's, or the *)
(* list of all its arguments'.                                              *)

DefaultValue == Bare(<<7, 1>>)

\* _apply_defaults(func, args, kwargs): the TypeError of sig.bind, or one
\* value for every parameter, in the order of the signature.  kw is the
\* last parameter given by keyword, if it is.
BindFails(func, pos, kw) ==
    \/ Len(pos) > func.n
    \/ kw # None /\ Len(pos) = func.n
    \/ Len(pos) < func.n - 1
    \/ Len(pos) = func.n - 1 /\ kw = None /\ ~func.hasDefault

apply_defaults(func, pos, kw) ==
    [i \in 1..func.n |->
        IF i <= Len(pos) THEN pos[i]
        ELSE IF kw # None THEN kw[1]
        ELSE DefaultValue]

\* The wrapped function, called with positional arguments only.
FuncResult(func, passed) ==
    IF func.returns = "first"
    THEN [seq |-> FALSE, items |-> <<MagnitudeOf(passed[1])>>]
    ELSE [seq |-> TRUE, items |-> [i \in 1..Len(passed) |-> MagnitudeOf(passed[i])]]

\* ureg.Quantity(result, unit)
Quantity(res, unit) == Q(res.mag, unit)

\* A mutant of OutUnit: a back-reference is not substituted.
OutUnit_NoSubstitution(r, byName) == r.uc

\* wrapper, lines 194-195 and 203: the unit a declared return unit stands for.
OutUnit(r, byName) == IF r.kind = "ref" THEN replace_units(r.uc, byName) ELSE r.uc

\* wrapper, lines 196-203: one returned element.
OutElement(r, res, byName) ==
    IF r.kind = "none" THEN res ELSE Quantity(res, OutUnit(r, byName))

NoReturn == NoOutcome.ret

Outcome(err, log, passed, result, ret) ==
    [called |-> TRUE, err |-> err, log |-> log, passed |-> passed,
     result |-> result, ret |-> ret]

NoResult == NoOutcome.result

\* wrapper, lines 193-203: what is returned for the function's result.  With
\* a list or tuple of return units the result is a sequence at least as long
\* (zip_longest pairs a result beyond the units with None); with a single
\* return unit that is not None the result is one number.
wrap_result(ret, result, byName) ==
    LET unitAt(i) == IF i <= Len(ret.items) THEN ret.items[i] ELSE DNone
    IN IF \E i \in 1..Len(ret.items) :
              ret.items[i].kind = "ref" /\ ~CanReplace(ret.items[i].uc, byName)
       THEN [err |-> "KeyError", ret |-> NoReturn]
       ELSE IF ret.container
       THEN [err |-> "",
             ret |-> [cls |-> ret.cls,
                      items |-> [i \in 1..Len(result.items) |->
                                   OutElement(unitAt(i), result.items[i], byName)]]]
       ELSE IF ret.items[1].kind = "none"
       THEN [err |-> "", ret |-> [cls |-> IF result.seq THEN "result" ELSE "scalar",
                                  items |-> result.items]]
       ELSE [err |-> "",
             ret |-> [cls |-> "scalar",
                      items |-> <<OutElement(ret.items[1], result.items[1], byName)>>]]

\* wraps(ureg, ret, args, strict)(func)(*values, **kw): the events of the
\* call in their order, the arguments the function was called with, what it
\* returned and what the wrapper returned or raised.
wrapper(w, pos, kw) ==
    LET values == apply_defaults(w.func, pos, kw)
        conv == converter(w.args, values, w.strict)
        result == FuncResult(w.func, conv.new_values)
        out == wrap_result(w.ret, result, conv.byName)
    IN IF BindFails(w.func, pos, kw)
       THEN Outcome("TypeError", <<>>, <<>>, NoResult, NoReturn)
       ELSE IF conv.err # ""
       THEN Outcome(conv.err, <<"converter">>, <<>>, NoResult, NoReturn)
       ELSE Outcome(out.err, <<"converter", "func">>, conv.new_values, result, out.ret)

------------------------------------------------------------------------------
(* The wrappers built and the calls made of them.                           *)

Funcs ==
    [n : 1..MaxParams, hasDefault : BOOLEAN, returns : {"first", "all"}]

ArgDecls == {DNone, DUnits(UCm), DUnits(UCs), DRef(RefA)}

SingleRets == {DNone, DUnits(UCm), DRef(RefA), DRef(RefA2)}

Rets ==
    { [container |-> FALSE, cls |-> "", items |-> <<r>>] : r \in SingleRets }
        \cup { [container |-> TRUE, cls |-> "list", items |-> <<DUnits(UCm)>>],
               [container |-> TRUE, cls |-> "tuple", items |-> <<DRef(RefA), DNone>>] }

\* wraps(ureg, ret, args, strict)(func): units are declared for the first
\* parameters of func; a function under a list or tuple of return units
\* returns a sequence at least as long, any other function one number.
Wrappers ==
    { w \in [ret : Rets, args : UNION { [1..k -> ArgDecls] : k \in 1..MaxParams },
             strict : BOOLEAN, func : Funcs] :
        /\ Len(w.args) <= w.func.n
        /\ w.ret.container <=> w.func.returns = "all"
        /\ w.ret.container => Len(w.ret.items) <= w.func.n }

Values == {Q(<<200, 1>>, UCcm), Q(<<2, 1>>, UCm), Q(<<3, 1>>, UCs), Bare(<<7, 1>>)}

WrapInit ==
    /\ wrapped \in Wrappers
    /\ wcall = NoCall
    /\ wout = NoOutcome
    /\ line = <<>>
    /\ defn = NoDefinition
    /\ dpc = "idle"
    /\ app = "default"
    /\ calls = <<>>
    /\ unp = NoUnpickle
    /\ exc = NoException
    /\ shown = NoShown
    /\ added = <<>>

\* A call of the wrapper: every parameter positional, or the last one left
\* out or given by keyword.
CallWrapper(pos, kw) ==
    /\ ~wout.called
    /\ Len(pos) \in {wrapped.func.n - 1, wrapped.func.n}
    /\ kw # None => Len(pos) = wrapped.func.n - 1
    /\ wcall' = [pos |-> pos, kw |-> kw]
    /\ wout' = wrapper(wrapped, pos, kw)
    /\ UNCHANGED <<wrapped, notWrap>>

WrapNext ==
    \E pos \in UNION { [1..k -> Values] : k \in 0..MaxParams } :
        \E kw \in {None} \cup {Some(v) : v \in Values} : CallWrapper(pos, kw)

\* What the caller gave for parameter i, the default where he gave nothing.
GivenAt(i) ==
    IF i <= Len(wcall.pos) THEN wcall.pos[i]
    ELSE IF wcall.kw # None THEN wcall.kw[1]
    ELSE Bare(<<7, 1>>)

\* How often the wrapped function was invoked, and after which events.
Invocations == Cardinality({i \in 1..Len(wout.log) : wout.log[i] = "func"})

\* Parameter i is declared with a plain unit: not None, no back-reference.
PlainUnitAt(i) == i <= Len(wrapped.args) /\ wrapped.args[i].kind = "units"

NoneAt(i) == i > Len(wrapped.args) \/ wrapped.args[i].kind = "none"

\* C9: the wrapped function is invoked at most once and after the
\* conversions; a quantity at a plain unit-tagged position arrives as the
\* magnitude converted from its units to the declared units, a parameter
\* declared None arrives as given, and a conversion that raises leaves the
\* function uninvoked.
C9_ConvertThenInvokeOnce ==
    wout.called =>
        /\ Invocations <= 1
        /\ \A i \in 1..Len(wout.log) :
              wout.log[i] = "func" => (i > 1 /\ wout.log[i - 1] = "converter")
        /\ Invocations = 1 =>
              /\ Len(wout.passed) = wrapped.func.n
              /\ \A i \in 1..wrapped.func.n :
                    /\ (PlainUnitAt(i) /\ GivenAt(i).isq) =>
                          /\ Dimensionality(GivenAt(i).units)
                                = Dimensionality(wrapped.args[i].uc)
                          /\ wout.passed[i] =
                                Bare(RatMul(GivenAt(i).mag,
                                            RatDiv(FactorOf(GivenAt(i).units),
                                                   FactorOf(wrapped.args[i].uc))))
                    /\ NoneAt(i) => wout.passed[i] = GivenAt(i)
        /\ (\E i \in 1..wrapped.func.n :
               /\ PlainUnitAt(i) /\ GivenAt(i).isq
               /\ Dimensionality(GivenAt(i).units) # Dimensionality(wrapped.args[i].uc))
              => Invocations = 0
        /\ wout.err = "DimensionalityError" => Invocations = 0

C9_Witness ==
    /\ wout.called /\ Invocations = 1
    /\ wrapped.args = <<DUnits(UCm), DNone>>
    /\ wcall.pos = <<Q(<<200, 1>>, UCcm), Q(<<3, 1>>, UCs)>>
    /\ wout.passed = <<Bare(<<2, 1>>), Q(<<3, 1>>, UCs)>>

C9_WitnessRaises ==
    /\ wout.called /\ Invocations = 0 /\ wout.err = "DimensionalityError"
    /\ wrapped.args = <<DUnits(UCm)>>
    /\ wcall.pos = <<Q(<<3, 1>>, UCs)>>

\* The units recorded for a name: those of the value given at the first
\* parameter declared as its definition ("=name"), none for a bare number.
C10_Recorded(name) ==
    LET isDef(i) == wrapped.args[i] = DRef([k \in {name} |-> 1])
        first == CHOOSE i \in 1..Len(wrapped.args) :
                     isDef(i) /\ \A j \in 1..(i - 1) : ~isDef(j)
    IN IF GivenAt(first).isq THEN GivenAt(first).units ELSE EmptyUC

\* The unit a declared return unit stands for: itself, or for a
\* back-reference name^e the recorded units of name, to the power e.
C10_Unit(r) ==
    IF r.kind = "units" THEN r.uc
    ELSE LET name == CHOOSE k \in DOMAIN r.uc : TRUE
         IN [u \in DOMAIN C10_Recorded(name) |-> C10_Recorded(name)[u] * r.uc[name]]

C10_Element(r, res) ==
    IF r.kind = "none" THEN res
    ELSE [isq |-> TRUE, mag |-> res.mag, units |-> C10_Unit(r)]

\* C10: the wrapper returns the function's result with the declared units
\* attached: a quantity in the declared (or substituted) unit, the result
\* itself under None, and under a list or tuple of units a container of that
\* class, element by element (a result beyond the declared units as it is).
C10_ReturnCarriesDeclaredUnits ==
    (wout.called /\ Invocations = 1 /\ wout.err = "") =>
        LET ret == wrapped.ret
            res == wout.result.items
        IN IF ret.container
           THEN /\ wout.ret.cls = ret.cls
                /\ Len(wout.ret.items) = Len(res)
                /\ \A i \in 1..Len(res) :
                      wout.ret.items[i] =
                          IF i <= Len(ret.items) THEN C10_Element(ret.items[i], res[i])
                          ELSE res[i]
           ELSE /\ wout.ret.cls = "scalar"
                /\ wout.ret.items = <<C10_Element(ret.items[1], res[1])>>

C10_Witness ==
    /\ wout.called /\ wout.err = ""
    /\ wrapped.ret = [container |-> TRUE, cls |-> "tuple", items |-> <<DRef(RefA), DNone>>]
    /\ wrapped.args = <<DUnits(UCm), DRef(RefA)>>
    /\ wcall.pos = <<Q(<<200, 1>>, UCcm), Q(<<3, 1>>, UCs)>>
    /\ wout.ret = [cls |-> "tuple",
                   items |-> <<Q(<<2, 1>>, UCs), Bare(<<3, 1>>)>>]

C10_WitnessSquared ==
    /\ wout.called /\ wout.err = ""
    /\ wrapped.ret = [container |-> FALSE, cls |-> "", items |-> <<DRef(RefA2)>>]
    /\ wout.ret.cls = "scalar"
    /\ wout.ret.items[1].units = [k \in {"cm"} |-> 2]

------------------------------------------------------------------------------
(* strict (C11)                                                             *)

\* The call bound to the function's parameters: each has a value.
C11_Bound == wout.called /\ ~BindFails(wrapped.func, wcall.pos, wcall.kw)

\* The plain unit-tagged parameters that received a value that is no quantity.
C11_BareAt == {i \in 1..Len(wrapped.args) : PlainUnitAt(i) /\ ~GivenAt(i).isq}

\* Parameter i is a dependent: a back-reference that is not the first
\* appearance of one name alone.
C11_DependentAt(i) ==
    /\ i <= Len(wrapped.args)
    /\ wrapped.args[i].kind = "ref"
    /\ \/ Cardinality(DOMAIN wrapped.args[i].uc) # 1
       \/ \E k \in DOMAIN wrapped.args[i].uc : wrapped.args[i].uc[k] # 1
       \/ \E j \in 1..(i - 1) : wrapped.args[j] = wrapped.args[i]

\* The conversion of parameter i cannot be done: a dependent whose value has
\* not the dimensionality of the units its template stands for, or a quantity
\* at a plain unit-tagged parameter of another dimensionality.
C11_Mismatch(i) ==
    \/ /\ C11_DependentAt(i)
       /\ Dimensionality(UnitsOf(GivenAt(i))) # Dimensionality(C10_Unit(wrapped.args[i]))
    \/ /\ PlainUnitAt(i) /\ GivenAt(i).isq
       /\ Dimensionality(GivenAt(i).units) # Dimensionality(wrapped.args[i].uc)

C11_WitnessNotStrict ==
    /\ C11_Bound /\ ~wrapped.strict
    /\ wrapped.args = <<DUnits(UCm)>>
    /\ wcall.pos = <<Bare(<<7, 1>>)>>
    /\ Invocations = 1 /\ wout.passed[1] = Bare(<<7, 1>>)

C11_WitnessConversionFirst ==
    /\ C11_Bound /\ wrapped.strict
    /\ wrapped.args = <<DUnits(UCm), DUnits(UCs)>>
    /\ wcall.pos = <<Q(<<3, 1>>, UCs), Bare(<<7, 1>>)>>
    /\ wout.err = "DimensionalityError" /\ Invocations = 0

------------------------------------------------------------------------------
(* check: the wrapper (pint/registry_helpers.py, lines 209-246).  A         *)
(* dimension is declared by a unit expression, or is None.                  *)

\* ureg.get_dimensionality(dim)
get_dimensionality(uc) == Dimensionality(uc)

\* check, line 223: the dimensions of the declarations.
CheckDimensions(decls) ==
    [i \in 1..Len(decls) |->
        IF decls[i] = None THEN None ELSE Some(get_dimensionality(decls[i][1]))]

\* ureg.Quantity(value).check(dim): a bare number is dimensionless.
QuantityCheck(value, dim) == get_dimensionality(UnitsOf(value)) = dim

CheckOutcome(err, log, passed, at) ==
    [called |-> TRUE, err |-> err, log |-> log, passed |-> passed, at |-> at]

\* A mutant of CheckCallArgs: the function is called with the bound values.
CheckCallArgs_Bound(pos, kw, list_args) == [pos |-> list_args, kw |-> None]

\* wrapper, line 244: func(*args, **kwargs).
CheckCallArgs(pos, kw, list_args) == [pos |-> pos, kw |-> kw]

\* check(ureg, *args)(func)(*args, **kwargs): the events of the call, the
\* arguments the function was called with, the exception raised and the
\* position of the value it was raised for.
check_wrapper(c, pos, kw) ==
    LET list_args == apply_defaults(c.func, pos, kw)
        dimensions == CheckDimensions(c.dims)
        bad == {i \in 1..Len(dimensions) :
                   /\ dimensions[i] # None
                   /\ ~QuantityCheck(list_args[i], dimensions[i][1])}
        firstBad == CHOOSE i \in bad : \A j \in bad : i <= j
    IN IF BindFails(c.func, pos, kw)
       THEN CheckOutcome("TypeError", <<>>, NoCall, 0)
       ELSE IF Len(dimensions) > Len(list_args)
       THEN CheckOutcome("TypeError", <<"defaults">>, NoCall, 0)
       ELSE IF bad # {}
       THEN CheckOutcome("DimensionalityError", <<"defaults", "check">>, NoCall, firstBad)
       ELSE CheckOutcome("", <<"defaults", "check", "func">>,
                         CheckCallArgs(pos, kw, list_args), 0)

CheckDecls == {None, Some(UCm), Some(UCs)}

\* check(ureg, *args)(func): any number of dimensions, also more than the
\* function has parameters.
Checkers ==
    [dims : UNION { [1..k -> CheckDecls] : k \in 1..MaxParams },
     func : [n : 1..MaxParams, hasDefault : BOOLEAN, returns : {"first"}]]

CheckInit ==
    /\ wrapped \in Checkers
    /\ wcall = NoCall
    /\ wout = NoOutcome
    /\ line = <<>>
    /\ defn = NoDefinition
    /\ dpc = "idle"
    /\ app = "default"
    /\ calls = <<>>
    /\ unp = NoUnpickle
    /\ exc = NoException
    /\ shown = NoShown
    /\ added = <<>>

\* A call of the wrapper: every parameter positional, or the last one left
\* out or given by keyword.
CallChecked(pos, kw) ==
    /\ ~wout.called
    /\ Len(pos) \in {wrapped.func.n - 1, wrapped.func.n}
    /\ kw # None => Len(pos) = wrapped.func.n - 1
    /\ wcall' = [pos |-> pos, kw |-> kw]
    /\ wout' = check_wrapper(wrapped, pos, kw)
    /\ UNCHANGED <<wrapped, notWrap>>

CheckNext ==
    \E pos \in UNION { [1..k -> Values] : k \in 0..MaxParams } :
        \E kw \in {None} \cup {Some(v) : v \in Values} : CallChecked(pos, kw)

\* The value at parameter i has the dimensionality declared for it.
C12_Matches(i) ==
    Dimensionality(UnitsOf(GivenAt(i))) = Dimensionality(wrapped.dims[i][1])

\* The checked parameters whose value has another dimensionality.
C12_Mismatching ==
    {i \in 1..Len(wrapped.dims) :
        i <= wrapped.func.n /\ wrapped.dims[i] # None /\ ~C12_Matches(i)}

\* C12: with more dimensions declared than the function has parameters the
\* call raises TypeError; otherwise the first parameter, in order, whose
\* value has not its declared (not None) dimensionality raises
\* DimensionalityError; in both cases the function is not invoked.  When no
\* checked parameter mismatches, whatever the values at the parameters
\* declared None, the function is invoked once with the positional and
\* keyword arguments of the caller as they were given.
C12_CheckThenCallThrough ==
    (wout.called /\ ~BindFails(wrapped.func, wcall.pos, wcall.kw)) =>
        LET n == wrapped.func.n
            k == Len(wrapped.dims)
        IN /\ Invocations <= 1
           /\ Invocations = 1 => (k <= n /\ C12_Mismatching = {})
           /\ k > n => (wout.err = "TypeError" /\ Invocations = 0)
           /\ (k <= n /\ C12_Mismatching # {}) =>
                 /\ wout.err = "DimensionalityError" /\ Invocations = 0
                 /\ wout.at \in C12_Mismatching
                 /\ \A j \in C12_Mismatching : wout.at <= j
           /\ (k <= n /\ C12_Mismatching = {}) =>
                 /\ wout.err = "" /\ Invocations = 1
                 /\ wout.passed = wcall

C12_Witness ==
    /\ wout.called /\ Invocations = 1
    /\ wrapped.dims = <<Some(UCm), None>>
    /\ wcall = [pos |-> <<Q(<<200, 1>>, UCcm)>>, kw |-> Some(Q(<<3, 1>>, UCs))]
    /\ wout.passed = wcall

C12_WitnessMismatch ==
    /\ wout.called /\ Invocations = 0 /\ wout.err = "DimensionalityError"
    /\ wrapped.dims = <<None, Some(UCm)>>
    /\ wcall = [pos |-> <<Q(<<3, 1>>, UCs)>>, kw |-> None]
    /\ wout.at = 2

C12_WitnessTooManyDimensions ==
    /\ wout.called /\ Invocations = 0 /\ wout.err = "TypeError"
    /\ Len(wrapped.dims) = 2 /\ wrapped.func.n = 1
    /\ wcall.pos = <<Q(<<2, 1>>, UCm)>>

------------------------------------------------------------------------------
(* The messages of DefinitionSyntaxError and RedefinitionError              *)
(* (pint/errors.py, as pint/testsuite/test_errors.py uses them): an         *)
(* exception keeps its constructor arguments in args and has the           *)
(* attributes filename and lineno, which may be assigned after             *)
(* construction; str() renders the message.                                 *)

\* Bound: the attribute assignments made to one exception object.
MaxAssign == 2

sWhileOpening == <<"W", "h", "i", "l", "e", " ", "o", "p", "e", "n", "i", "n", "g", " ">>
sInLineAfterFile == <<",", " ", "i", "n", " ", "l", "i", "n", "e", " ">>
sInLine == <<"I", "n", " ", "l", "i", "n", "e", " ">>
sColon == <<":", " ">>
sCannotRedefine == <<"C", "a", "n", "n", "o", "t", " ", "r", "e", "d", "e", "f", "i", "n", "e", " ", "'">>
sQuoteParen == <<"'", " ", "(">>
sParen == <<")">>

\* str(n) of a natural number: its decimal digits.
RECURSIVE IntStr(_)
IntStr(n) ==
    LET last == CHOOSE c \in Digits : DigitVal(c) = n % 10
    IN IF n < 10 THEN <<last>> ELSE IntStr(n \div 10) \o <<last>>

\* DefinitionSyntaxError(msg, filename=None, lineno=None) and
\* RedefinitionError(name, definition_type, filename=None, lineno=None).
NewError(cls, args, filename, lineno) ==
    [cls |-> cls, args |-> args, filename |-> filename, lineno |-> lineno,
     given |-> [filename |-> filename, lineno |-> lineno], assigned |-> 0]

\* The message without the place: msg, or what cannot be redefined.
BaseMessage(e) ==
    IF e.cls = "RedefinitionError"
    THEN sCannotRedefine \o e.args[1] \o sQuoteParen \o e.args[2] \o sParen
    ELSE e.args[1]

\* A mutant of ErrorAttrs: the place is the one given to the constructor.
ErrorAttrs_AtConstruction(e) == e.given

\* The place str() reads: the attributes as they are now.
ErrorAttrs(e) == [filename |-> e.filename, lineno |-> e.lineno]

\* The place in front of the message.
file_prefix(filename, lineno) ==
    IF filename # None /\ lineno # None
    THEN sWhileOpening \o filename[1] \o sInLineAfterFile \o IntStr(lineno[1]) \o sColon
    ELSE IF filename # None
    THEN sWhileOpening \o filename[1] \o sColon
    ELSE IF lineno # None
    THEN sInLine \o IntStr(lineno[1]) \o sColon
    ELSE <<>>

\* str(ex)
ErrorStr(e) ==
    file_prefix(ErrorAttrs(e).filename, ErrorAttrs(e).lineno) \o BaseMessage(e)

ErrorArgs ==
    [cls : {"DefinitionSyntaxError"}, args : {<<<<"f", "o", "o">>>>, <<<<"I", "n", " ", "l", "i", "n", "e", " ", "1", ":", " ", "x">>>>}]
        \cup [cls : {"RedefinitionError"},
              args : {<<<<"f", "o", "o">>, <<"b", "a", "r">>>>, <<<<"m">>, <<"p", "r", "e", "f", "i", "x">>>>}]

Filenames == {None, Some(<<"a", ".", "t", "x", "t">>), Some(<<"b">>)}
Linenos == {None, Some(1), Some(123)}

ErrInit ==
    /\ exc = NoException
    /\ shown = NoShown
    /\ line = <<>>
    /\ defn = NoDefinition
    /\ dpc = "idle"
    /\ app = "default"
    /\ calls = <<>>
    /\ unp = NoUnpickle
    /\ wrapped = NoWrapper
    /\ wcall = NoCall
    /\ wout = NoOutcome
    /\ added = <<>>

\* ex = DefinitionSyntaxError(...) or ex = RedefinitionError(...)
Construct(a, filename, lineno) ==
    /\ exc.cls = "none"
    /\ exc' = NewError(a.cls, a.args, filename, lineno)
    /\ shown' = NoShown
    /\ UNCHANGED notErr

\* ex.filename = filename
AssignFilename(filename) ==
    /\ exc.cls # "none" /\ exc.assigned < MaxAssign
    /\ exc' = [exc EXCEPT !.filename = filename, !.assigned = @ + 1]
    /\ shown' = NoShown
    /\ UNCHANGED notErr

\* ex.lineno = lineno
AssignLineno(lineno) ==
    /\ exc.cls # "none" /\ exc.assigned < MaxAssign
    /\ exc' = [exc EXCEPT !.lineno = lineno, !.assigned = @ + 1]
    /\ shown' = NoShown
    /\ UNCHANGED notErr

\* str(ex)
StrError ==
    /\ exc.cls # "none" /\ ~shown.called
    /\ shown' = [called |-> TRUE, text |-> ErrorStr(exc)]
    /\ UNCHANGED <<exc, notErr>>

ErrNext ==
    \/ \E a \in ErrorArgs, f \in Filenames, n \in Linenos : Construct(a, f, n)
    \/ \E f \in Filenames : AssignFilename(f)
    \/ \E n \in Linenos : AssignLineno(n)
    \/ StrError

\* The decimal digits of a line number below 1000.
C13_Decimal(n) ==
    LET d(k) == CHOOSE c \in {"0", "1", "2", "3", "4", "5", "6", "7", "8", "9"} :
                    DigitVal(c) = k
    IN IF n < 10 THEN <<d(n)>>
       ELSE IF n < 100 THEN <<d(n \div 10), d(n % 10)>>
       ELSE <<d(n \div 100), d((n \div 10) % 10), d(n % 10)>>

\* C13: the message of a DefinitionSyntaxError or RedefinitionError is made
\* of its base message and of the filename and lineno attributes it has
\* when it is rendered, given at construction or assigned afterwards: with
\* both 'While opening <file>, in line <n>: <msg>', with only filename
\* 'While opening <file>: <msg>', with only lineno 'In line <n>: <msg>', with
\* neither '<msg>'; the base message of a RedefinitionError is
\* "Cannot redefine '<name>' (<kind>)".
C13_MessageFollowsAttributes ==
    shown.called =>
        LET msg == IF exc.cls = "RedefinitionError"
                   THEN <<"C", "a", "n", "n", "o", "t", " ", "r", "e", "d", "e", "f", "i", "n", "e", " ", "'">> \o exc.args[1] \o <<"'", " ", "(">>
                            \o exc.args[2] \o <<")">>
                   ELSE exc.args[1]
            file == exc.filename
            n == exc.lineno
        IN shown.text =
              CASE file # <<>> /\ n # <<>> ->
                       <<"W", "h", "i", "l", "e", " ", "o", "p", "e", "n", "i", "n", "g", " ">> \o file[1] \o <<",", " ", "i", "n", " ", "l", "i", "n", "e", " ">>
                           \o C13_Decimal(n[1]) \o <<":", " ">> \o msg
                [] file # <<>> /\ n = <<>> -> <<"W", "h", "i", "l", "e", " ", "o", "p", "e", "n", "i", "n", "g", " ">> \o file[1] \o <<":", " ">> \o msg
                [] file = <<>> /\ n # <<>> -> <<"I", "n", " ", "l", "i", "n", "e", " ">> \o C13_Decimal(n[1]) \o <<":", " ">> \o msg
                [] OTHER -> msg

\* A DefinitionSyntaxError("foo") with filename and lineno assigned later.
C13_Witness ==
    /\ shown.called
    /\ exc.cls = "DefinitionSyntaxError" /\ exc.args = <<<<"f", "o", "o">>>>
    /\ exc.given = [filename |-> None, lineno |-> None]
    /\ exc.assigned = 2
    /\ shown.text = <<"W", "h", "i", "l", "e", " ", "o", "p", "e", "n", "i", "n", "g", " ", "a", ".", "t", "x", "t", ",", " ", "i", "n", " ", "l", "i", "n", "e", " ", "1", "2", "3", ":", " ", "f", "o", "o">>

\* A RedefinitionError("foo", "bar", lineno=123).
C13_WitnessRedefinition ==
    /\ shown.called
    /\ exc.cls = "RedefinitionError" /\ exc.assigned = 0
    /\ shown.text = <<"I", "n", " ", "l", "i", "n", "e", " ", "1", "2", "3", ":", " ", "C", "a", "n", "n", "o", "t", " ", "r", "e", "d", "e", "f", "i", "n", "e", " ", "'", "f", "o", "o", "'", " ", "(", "b", "a", "r", ")">>

\* A filename given at construction and taken away afterwards.
C13_WitnessCleared ==
    /\ shown.called
    /\ exc.given = [filename |-> Some(<<"a", ".", "t", "x", "t">>), lineno |-> None]
    /\ exc.filename = None /\ exc.lineno = None
    /\ shown.text = <<"f", "o", "o">>

------------------------------------------------------------------------------
(* add_aliases (pint/definitions.py, lines 80-82), called of a definition   *)
(* that from_string built.                                                  *)

\* Bounds: the add_aliases calls made of one definition, and the aliases
\* named in one call.
MaxAdds == 2
MaxAliasArgs == 2

\* Definition.add_aliases(*alias): the new tuple of aliases.
add_aliases(aliases, alias) ==
    aliases \o SelectSeq(alias, LAMBDA a : \A i \in 1..Len(aliases) : aliases[i] # a)

AliasNames == {<<"x">>, <<"y">>}

AliasArgs == UNION { [1..k -> AliasNames] : k \in 0..MaxAliasArgs }

\* The lines the definitions are built from: a unit without aliases, a unit,
\* a dimension and a prefix with aliases.
AliasLines ==
    { MakeLine(<<"a">>, <<"1">>, <<>>),
      MakeLine(<<"a">>, <<"b">>, <<<<"s">>, <<"x">>>>),
      MakeLine(<<"[", "a", "]">>, <<"[", "b", "]">>, <<<<"_">>, <<"y">>, <<"x">>>>),
      MakeLine(<<"k", "-">>, <<"2", "0">>, <<<<"s">>, <<"t">>>>) }

AliasInit ==
    /\ line \in AliasLines
    /\ defn = from_string(line)
    /\ dpc = "parsed"
    /\ added = <<>>
    /\ app = "default"
    /\ calls = <<>>
    /\ unp = NoUnpickle
    /\ wrapped = NoWrapper
    /\ wcall = NoCall
    /\ wout = NoOutcome
    /\ exc = NoException
    /\ shown = NoShown

\* A call defn.add_aliases(*alias).
AddAliases(alias) ==
    /\ Len(added) < MaxAdds
    /\ defn' = [defn EXCEPT !.aliases = add_aliases(defn.aliases, alias)]
    /\ added' = Append(added, [alias |-> alias, before |-> defn.aliases,
                               after |-> add_aliases(defn.aliases, alias)])
    /\ UNCHANGED <<line, dpc, notDef>>

AliasNext == \E alias \in AliasArgs : AddAliases(alias)

C14_NoRepeat(s) == \A i, j \in 1..Len(s) : s[i] = s[j] => i = j

\* C14: a definition whose aliases had no repeated entry has none after any
\* add_aliases calls, and each call keeps the aliases that were there, in
\* their order, in front of the ones it adds.
C14_AliasesStayDistinct ==
    (dpc = "parsed" /\ defn.ok /\ C14_NoRepeat(from_string(line).aliases)) =>
        /\ C14_NoRepeat(defn.aliases)
        /\ \A k \in 1..Len(added) :
              /\ Len(added[k].after) >= Len(added[k].before)
              /\ SubSeq(added[k].after, 1, Len(added[k].before)) = added[k].before

------------------------------------------------------------------------------
(* Unit values with several modifiers (C15)                                 *)

\* The modifiers of a unit value: the ';'-separated texts after the
\* expression.
C15_ModifiersOf(v) == Tail(Split(v, ";"))

\* Each modifier is 'key: value' with a number for its value.
C15_WellFormed(v) ==
    \A i \in 1..Len(C15_ModifiersOf(v)) :
        LET kv == Split(C15_ModifiersOf(v)[i], ":")
        IN Len(kv) = 2 /\ IsNumber(Strip(kv[2]))

\* The offset the modifiers ask for, wherever it stands among them: the
\* number of the last 'offset' modifier, 0 when there is none.
C15_OffsetOf(v) ==
    LET mods == C15_ModifiersOf(v)
        isOffset(i) == Strip(Split(mods[i], ":")[1]) = cOffset
        at == {i \in 1..Len(mods) : isOffset(i)}
        last == CHOOSE i \in at : \A j \in at : j <= i
    IN IF at = {} THEN 0 ELSE NumVal(Strip(Split(mods[last], ":")[2]))

\* The unit lines with two or more well-formed modifiers after an expression
\* that parses to units only or to dimensions only.
C15_ManyModifiers ==
    /\ Parsed /\ defn.kind = "Unit"
    /\ LET v == ValueOfLine(line)
           ph == ParserHelper_from_string(ExprOfValue(v))
       IN /\ Len(C15_ModifiersOf(v)) >= 2
          /\ C15_WellFormed(v)
          /\ ph.ok
          /\ (\A k \in DOMAIN ph.uc : is_dim(k)) \/ (\A k \in DOMAIN ph.uc : ~is_dim(k))

\* C15: a Unit value with two or more ';'-separated 'key: value' modifiers
\* builds a definition whose reference is the parsed expression before the
\* first ';' and whose converter follows the offset modifier, wherever it
\* stands.
C15_ManyModifiersBuild ==
    C15_ManyModifiers =>
        LET v == ValueOfLine(line)
            ph == ParserHelper_from_string(ExprOfValue(v))
            off == C15_OffsetOf(v)
        IN /\ defn.ok
           /\ defn.reference = Some(ph.uc)
           /\ defn.converter =
                 IF off # 0 THEN [type |-> "Offset", scale |-> ph.scale, offset |-> off]
                 ELSE [type |-> "Scale", scale |-> ph.scale, offset |-> 0]

------------------------------------------------------------------------------
(* The specifications: each drives one part and leaves the others idle.     *)

SpecDef == DefInit /\ [][DefNext]_vars

SpecAlias == AliasInit /\ [][AliasNext]_vars

SpecApp == AppInit /\ [][AppNext]_vars

SpecWrap == WrapInit /\ [][WrapNext]_vars

SpecCheck == CheckInit /\ [][CheckNext]_vars

SpecErr == ErrInit /\ [][ErrNext]_vars

==============================================================================
